---- MODULE Spec2Model ----
(***************************************************************************)
(* Restricted-zone intrusion alerting: AlertManager (alert_manager.py),    *)
(* driven by the frame loop of RestrictedZoneMonitor (main.py).            *)
(*                                                                         *)
(* Units.  Timestamps (time.time()) are whole seconds.  Zone vertices and  *)
(* bounding boxes are integer pixels.  A bounding-box center (x1+x2)/2 is  *)
(* a half-integer, so every point is kept in half-pixel units: <<X, Y>>    *)
(* stands for the point (X/2, Y/2).                                        *)
(***************************************************************************)
EXTENDS Integers, Sequences, FiniteSets, TLC

ALARM_DURATION == 3

\* bounds of the model
MaxTime == 4
MaxTracks == 2
GridWidth == 2
GridHeight == 1
MaxVertices == 4
MaxZones == 2

TrackIds == {1, 2}
\* no such tick yet
NoTime == 0 - 1

VARIABLES
    clock,            \* the wall clock read by time.time()
    zones,            \* RestrictedZoneMonitor.zones
    active_alerts,    \* AlertManager.active_alerts : track_id -> Alert
    track_positions,  \* AlertManager.track_positions : track_id -> center
    tracks,           \* the observations passed to the latest update_alerts
    returned,         \* the set returned by the latest update_alerts
    reply,            \* the latest call and what it returned
    pc,               \* where the program is: "idle", "marking", "frames" or "stopped"
    raised,           \* the exception the latest call raised, or "none"
    zone_file,        \* restricted_zones.json
    current_zone_points,  \* ZoneMarker.current_zone_points
    marker_zones,     \* ZoneMarker.zones
    lastIn,           \* history: per track, the time of its latest tick inside a zone
    zoneAt,           \* history: per track, the zones found at its first and latest tick inside
    since,            \* history: per track, what the ticks after its last inside tick saw
    created,          \* history: per track, the time of the tick that created its record
    deleted,          \* history: the track ids whose record the latest tick deleted
    polygon,          \* geometry check: the polygon argument
    point,            \* geometry check: the point argument
    inside            \* geometry check: what check_point_in_polygon returned

ledger == <<clock, zones, active_alerts, track_positions, tracks, returned,
            reply, lastIn, zoneAt, since, created, deleted>>
geometry == <<polygon, point, inside>>
registry == <<zone_file, current_zone_points, marker_zones>>
control == <<pc, raised>>
vars == <<ledger, geometry, registry, control>>

Min(a, b) == IF a < b THEN a ELSE b
Max(a, b) == IF a > b THEN a ELSE b

Put(f, k, v) == [x \in DOMAIN f \cup {k} |-> IF x = k THEN v ELSE f[x]]
Restrict(f, S) == [x \in DOMAIN f \cap S |-> f[x]]
EmptyMap == [x \in {} |-> 0]

(***************************************************************************)
(* Geometry: ray casting.                                                  *)
(***************************************************************************)

\* xinters before its first assignment
NoXinters == [set |-> FALSE, num |-> 0, den |-> 1, edge |-> 0]

\* a slip: xinters without the "+ p1x" term
XintersNoOffset(pt, p1, p2, i) ==
    [set  |-> TRUE,
     num  |-> (pt[2] - 2 * p1[2]) * (p2[1] - p1[1]),
     den  |-> p2[2] - p1[2],
     edge |-> i]

\* xinters = (y - p1y) * (p2x - p1x) / (p2y - p1y) + p1x, kept as the exact
\* fraction num / den in half-pixel units; edge remembers the iteration.
Xinters(pt, p1, p2, i) ==
    [set  |-> TRUE,
     num  |-> (pt[2] - 2 * p1[2]) * (p2[1] - p1[1]) + 2 * p1[1] * (p2[2] - p1[2]),
     den  |-> p2[2] - p1[2],
     edge |-> i]

\* x <= xinters
LeqXinters(x, xi) ==
    IF xi.den > 0 THEN x * xi.den <= xi.num ELSE x * xi.den >= xi.num

\* a slip: >= for > in the test against the lower end of the edge
PolygonEdgeClosed(pt, poly, i, st) ==
    LET n == Len(poly)
        p1 == poly[i]
        p2 == poly[(i % n) + 1]
        reached == /\ pt[2] >= 2 * Min(p1[2], p2[2])
                   /\ pt[2] <= 2 * Max(p1[2], p2[2])
                   /\ pt[1] <= 2 * Max(p1[1], p2[1])
        xi == IF reached /\ p1[2] # p2[2] THEN Xinters(pt, p1, p2, i)
              ELSE st.xinters
        compared == reached /\ p1[1] # p2[1]
        toggle == reached /\ (p1[1] = p2[1] \/ (xi.set /\ LeqXinters(pt[1], xi)))
    IN  [inside  |-> IF toggle THEN ~st.inside ELSE st.inside,
         xinters |-> xi,
         unbound |-> st.unbound \/ (compared /\ ~xi.set),
         stale   |-> st.stale \/ (compared /\ xi.set /\ xi.edge # i),
         compared   |-> st.compared \/ compared,
         horizontal |-> st.horizontal \/ (compared /\ p1[2] = p2[2])]

\* one iteration of the for loop: i is the loop index, p1 = polygon[i - 1]
\* (carried over by the assignment that ends the previous iteration) and
\* p2 = polygon[i % n], zero-based.
PolygonEdge(pt, poly, i, st) ==
    LET n == Len(poly)
        p1 == poly[i]
        p2 == poly[(i % n) + 1]
        reached == /\ pt[2] > 2 * Min(p1[2], p2[2])
                   /\ pt[2] <= 2 * Max(p1[2], p2[2])
                   /\ pt[1] <= 2 * Max(p1[1], p2[1])
        xi == IF reached /\ p1[2] # p2[2] THEN Xinters(pt, p1, p2, i)
              ELSE st.xinters
        compared == reached /\ p1[1] # p2[1]
        toggle == reached /\ (p1[1] = p2[1] \/ (xi.set /\ LeqXinters(pt[1], xi)))
    IN  [inside  |-> IF toggle THEN ~st.inside ELSE st.inside,
         xinters |-> xi,
         unbound |-> st.unbound \/ (compared /\ ~xi.set),
         stale   |-> st.stale \/ (compared /\ xi.set /\ xi.edge # i),
         compared   |-> st.compared \/ compared,
         horizontal |-> st.horizontal \/ (compared /\ p1[2] = p2[2])]

RECURSIVE PolygonLoop(_, _, _, _)
PolygonLoop(pt, poly, i, st) ==
    IF i > Len(poly) THEN st
    ELSE PolygonLoop(pt, poly, i + 1, PolygonEdge(pt, poly, i, st))

\* the whole run of check_point_in_polygon, with what it did to xinters
PolygonRun(pt, poly) ==
    PolygonLoop(pt, poly, 1,
                [inside |-> FALSE, xinters |-> NoXinters,
                 unbound |-> FALSE, stale |-> FALSE,
                 compared |-> FALSE, horizontal |-> FALSE])

\* the value returned; a read of xinters before its first assignment, which
\* raises UnboundLocalError instead, is PolygonRun(pt, poly).unbound
check_point_in_polygon(pt, poly) == PolygonRun(pt, poly).inside

\* ((x1 + x2) / 2, (y1 + y2) / 2) in half-pixel units
get_bbox_center(bbox) == <<bbox[1] + bbox[3], bbox[2] + bbox[4]>>

\* two overlapping square zones: x in 0..10 and x in 6..16
ZoneA == <<<<0, 0>>, <<10, 0>>, <<10, 10>>, <<0, 10>>>>
ZoneB == <<<<6, 0>>, <<16, 0>>, <<16, 10>>, <<6, 10>>>>
ZoneLists == {<<ZoneA>>, <<ZoneA, ZoneB>>, <<ZoneB, ZoneA>>}

\* bounding boxes (x1, y1, x2, y2) whose centers are in A only (4.5, 4.5),
\* in A and B (8, 5) and in no zone (25, 25)
Boxes == {<<0, 0, 9, 9>>, <<3, 0, 13, 10>>, <<20, 20, 30, 30>>}

\* boxes the tick input contract excludes: x1 >= x2 or y1 >= y2; their
\* centers (4.5, 4.5) and (5, 5) are in zone A
BadBoxes == {<<9, 9, 0, 0>>, <<5, 0, 5, 10>>}

\* a "zone" of two vertices, as a hand-edited zone file can hold it
Segment == <<<<0, 0>>, <<10, 10>>>>

\* the operator's left clicks go round the corners of zone A
Outline(n) == [i \in 1..n |-> ZoneA[((i - 1) % Len(ZoneA)) + 1]]
MarkedPolygons == {Outline(n) : n \in 0..MaxVertices}

Range(f) == {f[x] : x \in DOMAIN f}

\* check_point_in_polygon(center_point, zone) for the centers and zones above,
\* evaluated once per pair instead of once per call
InPolygon[pt \in {get_bbox_center(b) : b \in Boxes \cup BadBoxes},
          poly \in UNION {Range(zs) : zs \in ZoneLists}
                    \cup {Segment} \cup (MarkedPolygons \ {<<>>})] ==
    check_point_in_polygon(pt, poly)

\* a slip: the loop over the zones without the early return, last hit wins
RECURSIVE LastZone(_, _, _)
LastZone(center_point, zs, k) ==
    IF k > Len(zs) THEN [penetrated |-> FALSE, zone_id |-> -1]
    ELSE LET rest == LastZone(center_point, zs, k + 1)
         IN  IF rest.penetrated THEN rest
             ELSE IF InPolygon[center_point, zs[k]]
                  THEN [penetrated |-> TRUE, zone_id |-> k - 1]
                  ELSE rest

\* the for loop over enumerate(zones): first hit wins; zone ids are zero-based
RECURSIVE FirstZone(_, _, _)
FirstZone(center_point, zs, k) ==
    IF k > Len(zs) THEN [penetrated |-> FALSE, zone_id |-> -1]
    ELSE IF InPolygon[center_point, zs[k]]
         THEN [penetrated |-> TRUE, zone_id |-> k - 1]
         ELSE FirstZone(center_point, zs, k + 1)

\* returns (penetrated, zone_id) and caches the center in track_positions
check_zone_penetration(track_id, bbox, zs, positions) ==
    LET center_point == get_bbox_center(bbox)
        hit == FirstZone(center_point, zs, 1)
    IN  [penetrated      |-> hit.penetrated,
         zone_id         |-> hit.zone_id,
         track_positions |-> Put(positions, track_id, center_point)]

(***************************************************************************)
(* The alert ledger: one tick of update_alerts.                            *)
(***************************************************************************)

\* a slip: a new record that leaves last_seen_in_zone at 0
NewAlertUnseen(track_id, zone_id, current_time) ==
    [track_id          |-> track_id,
     zone_id           |-> zone_id,
     entry_time        |-> current_time,
     last_seen_in_zone |-> 0,
     is_active         |-> TRUE]

\* a slip: a new record that counts the zones from one
NewAlertOneBased(track_id, zone_id, current_time) ==
    [track_id          |-> track_id,
     zone_id           |-> zone_id + 1,
     entry_time        |-> current_time,
     last_seen_in_zone |-> current_time,
     is_active         |-> TRUE]

\* Alert(track_id, zone_id, entry_time, last_seen_in_zone, is_active=True)
NewAlert(track_id, zone_id, current_time) ==
    [track_id          |-> track_id,
     zone_id           |-> zone_id,
     entry_time        |-> current_time,
     last_seen_in_zone |-> current_time,
     is_active         |-> TRUE]

\* a slip: a refresh that forgets is_active
RefreshSeenOnly(alert, current_time) ==
    [alert EXCEPT !.last_seen_in_zone = current_time]

\* a slip: a refresh that forgets last_seen_in_zone
RefreshActiveOnly(alert, current_time) ==
    [alert EXCEPT !.is_active = TRUE]

\* a slip: a refresh that restarts entry_time as well
RefreshEntryToo(alert, current_time) ==
    [alert EXCEPT !.entry_time = current_time,
                  !.last_seen_in_zone = current_time, !.is_active = TRUE]

\* "Update existing alert - still in zone"
RefreshAlert(alert, current_time) ==
    [alert EXCEPT !.last_seen_in_zone = current_time, !.is_active = TRUE]

\* a slip: a refresh that records the zone found on this tick
PenetrationStepRezone(track, zs, current_time, st) ==
    LET track_id == track.track_id
        r == check_zone_penetration(track_id, track.bbox, zs, st.track_positions)
        alerts == st.active_alerts
    IN  [active_alerts |->
            IF ~r.penetrated THEN alerts
            ELSE IF track_id \notin DOMAIN alerts
                 THEN Put(alerts, track_id, NewAlert(track_id, r.zone_id, current_time))
                 ELSE Put(alerts, track_id,
                          [RefreshAlert(alerts[track_id], current_time)
                              EXCEPT !.zone_id = r.zone_id]),
         track_positions |-> r.track_positions]

\* first loop, one track: test the zones, then create or refresh the record
PenetrationStep(track, zs, current_time, st) ==
    LET track_id == track.track_id
        r == check_zone_penetration(track_id, track.bbox, zs, st.track_positions)
        alerts == st.active_alerts
    IN  [active_alerts |->
            IF ~r.penetrated THEN alerts
            ELSE IF track_id \notin DOMAIN alerts
                 THEN Put(alerts, track_id, NewAlert(track_id, r.zone_id, current_time))
                 ELSE Put(alerts, track_id, RefreshAlert(alerts[track_id], current_time)),
         track_positions |-> r.track_positions]

RECURSIVE PenetrationLoop(_, _, _, _, _)
PenetrationLoop(trks, zs, current_time, i, st) ==
    IF i > Len(trks) THEN st
    ELSE PenetrationLoop(trks, zs, current_time, i + 1,
                         PenetrationStep(trks[i], zs, current_time, st))

ActiveTrackIds(trks) == {trks[i].track_id : i \in DOMAIN trks}

\* next((t for t in tracks if t['track_id'] == track_id), None)
CurrentTrack(trks, track_id) ==
    LET hits == {i \in DOMAIN trks : trks[i].track_id = track_id}
    IN  trks[CHOOSE i \in hits : \A j \in hits : i <= j]

\* second loop, the branch of a record whose track is still observed:
\* has the track left every zone?  (the test caches the center again)
LeftZone(trks, zs, track_id, positions) ==
    /\ track_id \in ActiveTrackIds(trks)
    /\ ~check_zone_penetration(track_id, CurrentTrack(trks, track_id).bbox,
                               zs, positions).penetrated

\* a slip: the record of a disappeared track is never expired
DisappearedExpiredNever(alert, current_time) == FALSE

\* a slip: > for >= in the expiry of a disappeared track
DisappearedExpiredLate(alert, current_time) ==
    current_time - alert.last_seen_in_zone > ALARM_DURATION

\* "Track disappeared - check if alarm duration expired"
DisappearedExpired(alert, current_time) ==
    current_time - alert.last_seen_in_zone >= ALARM_DURATION

\* a slip: the grace period of a track that left is a second short
LeftExpiredEarly(alert, track_id, positions, current_time) ==
    /\ track_id \in DOMAIN positions
    /\ current_time - alert.last_seen_in_zone >= ALARM_DURATION - 1

\* a slip: > for >= in the expiry of a track that left
LeftExpiredLate(alert, track_id, positions, current_time) ==
    /\ track_id \in DOMAIN positions
    /\ current_time - alert.last_seen_in_zone > ALARM_DURATION

\* "Check if alarm duration expired since leaving zone"
LeftExpired(alert, track_id, positions, current_time) ==
    /\ track_id \in DOMAIN positions
    /\ current_time - alert.last_seen_in_zone >= ALARM_DURATION

\* a slip: the record of a track that disappeared is marked as departed
ExpiryLoopForceDeparted(trks, zs, current_time, st) ==
    LET alerts == st.active_alerts
        active_track_ids == ActiveTrackIds(trks)
        seen == DOMAIN alerts \cap active_track_ids
        positions == [id \in DOMAIN st.track_positions \cup seen |->
                        IF id \in seen
                        THEN get_bbox_center(CurrentTrack(trks, id).bbox)
                        ELSE st.track_positions[id]]
        left(id) == LeftZone(trks, zs, id, st.track_positions)
    IN  [active_alerts |->
            [id \in DOMAIN alerts |->
                IF left(id) \/ id \notin active_track_ids
                THEN [alerts[id] EXCEPT !.is_active = FALSE]
                ELSE alerts[id]],
         track_positions |-> positions,
         alerts_to_remove |->
            {id \in DOMAIN alerts :
                IF id \notin active_track_ids
                THEN DisappearedExpired(alerts[id], current_time)
                ELSE left(id) /\ LeftExpired(alerts[id], id, positions, current_time)}]

\* a slip: leaving the zones counts as a sighting
ExpiryLoopTouch(trks, zs, current_time, st) ==
    LET alerts == st.active_alerts
        active_track_ids == ActiveTrackIds(trks)
        seen == DOMAIN alerts \cap active_track_ids
        positions == [id \in DOMAIN st.track_positions \cup seen |->
                        IF id \in seen
                        THEN get_bbox_center(CurrentTrack(trks, id).bbox)
                        ELSE st.track_positions[id]]
        left(id) == LeftZone(trks, zs, id, st.track_positions)
    IN  [active_alerts |->
            [id \in DOMAIN alerts |->
                IF left(id)
                THEN [alerts[id] EXCEPT !.is_active = FALSE,
                                        !.last_seen_in_zone = current_time]
                ELSE alerts[id]],
         track_positions |-> positions,
         alerts_to_remove |->
            {id \in DOMAIN alerts :
                IF id \notin active_track_ids
                THEN DisappearedExpired(alerts[id], current_time)
                ELSE left(id) /\ LeftExpired(alerts[id], id, positions, current_time)}]

\* second loop over active_alerts.items(): every iteration reads and writes
\* its own record only, so the loop is taken record by record.
ExpiryLoop(trks, zs, current_time, st) ==
    LET alerts == st.active_alerts
        active_track_ids == ActiveTrackIds(trks)
        seen == DOMAIN alerts \cap active_track_ids
        positions == [id \in DOMAIN st.track_positions \cup seen |->
                        IF id \in seen
                        THEN get_bbox_center(CurrentTrack(trks, id).bbox)
                        ELSE st.track_positions[id]]
        left(id) == LeftZone(trks, zs, id, st.track_positions)
    IN  [active_alerts |->
            [id \in DOMAIN alerts |->
                IF left(id) THEN [alerts[id] EXCEPT !.is_active = FALSE]
                ELSE alerts[id]],
         track_positions |-> positions,
         alerts_to_remove |->
            {id \in DOMAIN alerts :
                IF id \notin active_track_ids
                THEN DisappearedExpired(alerts[id], current_time)
                ELSE left(id) /\ LeftExpired(alerts[id], id, positions, current_time)}]

\* a slip: expired records removed, their cached positions kept
RemoveExpiredAlertsOnly(st) ==
    [active_alerts   |-> Restrict(st.active_alerts,
                                  DOMAIN st.active_alerts \ st.alerts_to_remove),
     track_positions |-> st.track_positions]

\* "Remove expired alerts"
RemoveExpired(st) ==
    [active_alerts   |-> Restrict(st.active_alerts,
                                  DOMAIN st.active_alerts \ st.alerts_to_remove),
     track_positions |-> Restrict(st.track_positions,
                                  DOMAIN st.track_positions \ st.alerts_to_remove)]

\* "Clean up positions for disappeared tracks"
CleanupPositions(trks, st) ==
    LET disappeared_tracks == DOMAIN st.track_positions \ ActiveTrackIds(trks)
    IN  [active_alerts   |-> st.active_alerts,
         track_positions |-> Restrict(st.track_positions,
                                      DOMAIN st.track_positions \ disappeared_tracks)]

\* the observations without the key: track[key] raises KeyError on them
Lacking(trks, key) == {i \in DOMAIN trks : key \notin DOMAIN trks[i]}

\* update_alerts(tracks, zones) at time.time() = current_time: the state it
\* leaves and the set it returns, or the exception it raises.  A missing
\* track_id raises in the set comprehension, before anything is changed; a
\* missing bbox raises in the first loop, after the observations before it
\* have been processed.
update_alerts(trks, zs, current_time, alerts, positions) ==
    LET s0 == [active_alerts |-> alerts, track_positions |-> positions]
        bad == Lacking(trks, "bbox")
        first == CHOOSE i \in bad : \A j \in bad : i <= j
        s1 == PenetrationLoop(trks, zs, current_time, 1, s0)
        s2 == ExpiryLoop(trks, zs, current_time, s1)
        s3 == RemoveExpired(s2)
        s4 == CleanupPositions(trks, s3)
    IN  IF Lacking(trks, "track_id") # {}
        THEN [active_alerts |-> alerts, track_positions |-> positions,
              result |-> {}, raised |-> "KeyError"]
        ELSE IF bad # {}
        THEN LET s == PenetrationLoop(SubSeq(trks, 1, first - 1), zs,
                                      current_time, 1, s0)
             IN  [active_alerts |-> s.active_alerts,
                  track_positions |-> s.track_positions,
                  result |-> {}, raised |-> "KeyError"]
        ELSE [active_alerts   |-> s4.active_alerts,
              track_positions |-> s4.track_positions,
              result          |-> DOMAIN s4.active_alerts,
              raised          |-> "none"]

\* a slip: only the tracks that are inside a zone right now
get_alerted_tracks_active(alerts) == {id \in DOMAIN alerts : alerts[id].is_active}

\* set(self.active_alerts.keys())
get_alerted_tracks(alerts) == DOMAIN alerts

\* a slip: >= for > in the alarmed flag
get_alert_status_nonneg(track_id, alerts, current_time) ==
    IF track_id \notin DOMAIN alerts THEN <<FALSE, 0>>
    ELSE IF alerts[track_id].is_active THEN <<TRUE, 0>>
    ELSE LET time_since_left == current_time - alerts[track_id].last_seen_in_zone
             time_remaining == Max(0, ALARM_DURATION - time_since_left)
         IN  <<time_remaining >= 0, time_remaining>>

\* a slip: the grace period counted from entry_time
get_alert_status_since_entry(track_id, alerts, current_time) ==
    IF track_id \notin DOMAIN alerts THEN <<FALSE, 0>>
    ELSE IF alerts[track_id].is_active THEN <<TRUE, 0>>
    ELSE LET time_since_left == current_time - alerts[track_id].entry_time
             time_remaining == Max(0, ALARM_DURATION - time_since_left)
         IN  <<time_remaining > 0, time_remaining>>

get_alert_status(track_id, alerts, current_time) ==
    IF track_id \notin DOMAIN alerts THEN <<FALSE, 0>>
    ELSE IF alerts[track_id].is_active THEN <<TRUE, 0>>
    ELSE LET time_since_left == current_time - alerts[track_id].last_seen_in_zone
             time_remaining == Max(0, ALARM_DURATION - time_since_left)
         IN  <<time_remaining > 0, time_remaining>>

get_alert_statistics(alerts) == [total_alerts |-> Cardinality(DOMAIN alerts)]

(***************************************************************************)
(* The zone file: Config.load_zones and Config.save_zones.                 *)
(***************************************************************************)

\* restricted_zones.json: absent, not JSON, a JSON document that is not an
\* object, or a JSON object
NoFile == [kind |-> "missing"]
BadFile == [kind |-> "unparseable"]
ArrayFile == [kind |-> "array"]
ObjectFile(doc) == [kind |-> "object", doc |-> doc]

\* json.dump({'zones': zones}, f)
save_zones(zs) == ObjectFile([zones |-> zs])

\* open() raises FileNotFoundError, which is caught; json.load raises
\* JSONDecodeError and data.get raises AttributeError, which are not
load_zones(file) ==
    IF file.kind = "missing" THEN [raised |-> "none", zones |-> <<>>]
    ELSE IF file.kind = "unparseable"
         THEN [raised |-> "JSONDecodeError", zones |-> <<>>]
    ELSE IF file.kind = "array"
         THEN [raised |-> "AttributeError", zones |-> <<>>]
    ELSE [raised |-> "none",
          zones  |-> IF "zones" \in DOMAIN file.doc THEN file.doc.zones ELSE <<>>]

(***************************************************************************)
(* The inputs of the model.                                                *)
(***************************************************************************)

\* the zone files a run can find: none, one that is not JSON, a JSON array,
\* an object without the key, and objects whose zones are polygons or not
ZoneFiles ==
    {NoFile, BadFile, ArrayFile, ObjectFile([version |-> 1]),
     save_zones(<<>>), save_zones(<<ZoneA>>), save_zones(<<Segment>>),
     save_zones(<<ZoneA, Segment>>)}

\* observations as a caller can pass them: a key missing, or a bbox with
\* x1 >= x2 or y1 >= y2
RawObservations ==
    [track_id : TrackIds, bbox : Boxes \cup BadBoxes]
        \cup [track_id : TrackIds] \cup [bbox : {<<0, 0, 9, 9>>}]
RawTrackLists ==
    UNION {{s \in [1..n -> RawObservations] :
                \A i, j \in 1..n :
                    (i < j /\ "track_id" \in DOMAIN s[i] /\ "track_id" \in DOMAIN s[j])
                        => s[i].track_id < s[j].track_id}
           : n \in 0..MaxTracks}

\* the tracker reports every confirmed track once per frame, oldest first
Observations == [track_id : TrackIds, bbox : Boxes]
TrackLists ==
    UNION {{s \in [1..n -> Observations] :
                \A i, j \in 1..n : i < j => s[i].track_id < s[j].track_id}
           : n \in 0..MaxTracks}

Idle == [op |-> "none", arg |-> 0, at |-> 0, val |-> 0]

\* is the track observed inside some zone by these observations?
ObservedInside(trks, zs, track_id) ==
    /\ track_id \in ActiveTrackIds(trks)
    /\ check_zone_penetration(track_id, CurrentTrack(trks, track_id).bbox,
                              zs, EmptyMap).penetrated

\* what the ticks after a track's last inside tick saw of it
After(old, kind) == IF old \in {"none", kind} THEN kind ELSE "mixed"

\* the zones found for a track: at the tick that created its record and at
\* its latest tick inside a zone
NoZone == [first |-> 0 - 1, last |-> 0 - 1]

\* the lowest index (zero-based) of a zone that contains the center
ZoneFound(center_point, zs) ==
    LET hits == {k \in DOMAIN zs : InPolygon[center_point, zs[k]]}
    IN  (CHOOSE k \in hits : \A j \in hits : k <= j) - 1

(***************************************************************************)
(* The state machine of the monitor.                                       *)
(***************************************************************************)

\* AlertManager.__init__ and RestrictedZoneMonitor.load_zones
InitLedger ==
    /\ clock = 0
    /\ active_alerts = EmptyMap
    /\ track_positions = EmptyMap
    /\ tracks = <<>>
    /\ returned = {}
    /\ reply = Idle
    /\ lastIn = [id \in TrackIds |-> NoTime]
    /\ zoneAt = [id \in TrackIds |-> NoZone]
    /\ since = [id \in TrackIds |-> "none"]
    /\ created = [id \in TrackIds |-> NoTime]
    /\ deleted = {}

InitGeometry ==
    /\ polygon = <<>>
    /\ point = <<0, 0>>
    /\ inside = [called |-> FALSE, raised |-> FALSE, value |-> FALSE,
                 stale |-> FALSE, compared |-> FALSE, horizontal |-> FALSE]

\* ZoneMarker.__init__
InitMarker ==
    /\ current_zone_points = <<>>
    /\ marker_zones = <<>>

\* process_video has loaded the zones of the file and reads its first frame
Init ==
    /\ InitLedger
    /\ zones \in ZoneLists
    /\ InitGeometry
    /\ zone_file = save_zones(zones)
    /\ InitMarker
    /\ pc = "frames"
    /\ raised = "none"

\* update_alerts(trks, zones) with time.time() = now, and the history it makes
TickAt(now, trks) ==
    /\ pc = "frames"
    /\ tracks' = trks
    /\ \E out \in {update_alerts(trks, zones, now, active_alerts, track_positions)} :
        LET in(id) == ObservedInside(trks, zones, id)
        IN  /\ out.raised = "none"
            /\ clock' = now
            /\ active_alerts' = out.active_alerts
            /\ track_positions' = out.track_positions
            /\ returned' = out.result
            /\ reply' = [op |-> "update_alerts", arg |-> 0, at |-> now, val |-> out.result]
            /\ lastIn' = [id \in TrackIds |-> IF in(id) THEN now ELSE lastIn[id]]
            /\ since' = [id \in TrackIds |->
                            IF in(id) THEN "none"
                            ELSE IF lastIn[id] = NoTime THEN since[id]
                            ELSE IF id \in ActiveTrackIds(trks)
                                 THEN After(since[id], "outside")
                                 ELSE After(since[id], "vanished")]
            /\ created' = [id \in TrackIds |->
                            IF id \notin DOMAIN out.active_alerts THEN NoTime
                            ELSE IF id \in DOMAIN active_alerts THEN created[id]
                            ELSE now]
            /\ deleted' = DOMAIN active_alerts \ DOMAIN out.active_alerts
            /\ UNCHANGED <<zones, geometry, registry, control>>

\* update_alerts raises: what it had done stays done, nothing is returned and
\* the exception ends process_video
RaiseAt(now, trks) ==
    /\ pc = "frames"
    /\ tracks' = trks
    /\ \E out \in {update_alerts(trks, zones, now, active_alerts, track_positions)} :
        /\ out.raised # "none"
        /\ clock' = now
        /\ active_alerts' = out.active_alerts
        /\ track_positions' = out.track_positions
        /\ reply' = [op |-> "update_alerts", arg |-> 0, at |-> now, val |-> out.raised]
        /\ raised' = out.raised
        /\ pc' = "stopped"
        /\ UNCHANGED <<zones, returned, lastIn, zoneAt, since, created, deleted,
                       geometry, registry>>

\* one frame of process_video: alerted_tracks = update_alerts(tracks, zones)
Tick == \E trks \in TrackLists : TickAt(clock, trks) /\ UNCHANGED zoneAt

\* a second passes
Elapse ==
    /\ clock < MaxTime
    /\ clock' = clock + 1
    /\ UNCHANGED <<zones, active_alerts, track_positions, tracks, returned, reply,
                   lastIn, zoneAt, since, created, deleted, geometry,
                   registry, control>>

\* Visualization.draw_tracks: get_alert_status(track_id)
GetAlertStatus ==
    \E track_id \in TrackIds :
        /\ reply' = [op |-> "get_alert_status", arg |-> track_id, at |-> clock,
                     val |-> get_alert_status(track_id, active_alerts, clock)]
        /\ UNCHANGED <<clock, zones, active_alerts, track_positions, tracks, returned,
                       lastIn, zoneAt, since, created, deleted, geometry,
                   registry, control>>

GetAlertedTracks ==
    /\ reply' = [op |-> "get_alerted_tracks", arg |-> 0, at |-> clock,
                 val |-> get_alerted_tracks(active_alerts)]
    /\ UNCHANGED <<clock, zones, active_alerts, track_positions, tracks, returned,
                   lastIn, zoneAt, since, created, deleted, geometry,
                   registry, control>>

\* Visualization.draw_alarm_status: get_alert_statistics()
GetAlertStatistics ==
    /\ reply' = [op |-> "get_alert_statistics", arg |-> 0, at |-> clock,
                 val |-> get_alert_statistics(active_alerts)]
    /\ UNCHANGED <<clock, zones, active_alerts, track_positions, tracks, returned,
                   lastIn, zoneAt, since, created, deleted, geometry,
                   registry, control>>

\* the frame loop: frames of at most MaxTracks people, seconds apart or not
Next == Tick \/ Elapse

Spec == Init /\ [][Next]_vars

\* the frame loop with the drawing code's queries: frames of at most one person
TickOne ==
    \E trks \in TrackLists :
        Len(trks) <= 1 /\ TickAt(clock, trks) /\ UNCHANGED zoneAt

NextQueries ==
    TickOne \/ Elapse \/ GetAlertStatus \/ GetAlertedTracks \/ GetAlertStatistics

SpecQueries == Init /\ [][NextQueries]_vars

\* the frame loop at one frame per second: update_alerts at t = 0, 1, 2, ...
TickSecond ==
    \E trks \in TrackLists :
        /\ IF reply = Idle THEN TickAt(0, trks)
           ELSE clock < MaxTime /\ TickAt(clock + 1, trks)
        /\ UNCHANGED zoneAt

NextSeconds == TickSecond

SpecSeconds == Init /\ [][NextSeconds]_vars

\* the same for the two overlapping zones, with frames that keep coming (up
\* to the model's last second)
InitClear == Init /\ zones = <<ZoneA, ZoneB>>

SpecClear == InitClear /\ [][NextSeconds]_vars /\ WF_vars(TickSecond)

\* the zones a frame found for the tracks: the one of the tick that created
\* the record, and the one of the latest tick inside a zone
ZonesSeen(trks) ==
    LET found(id) == ZoneFound(get_bbox_center(CurrentTrack(trks, id).bbox), zones)
    IN  [id \in TrackIds |->
            IF ObservedInside(trks, zones, id)
            THEN [first |-> IF id \in DOMAIN active_alerts
                            THEN zoneAt[id].first ELSE found(id),
                  last  |-> found(id)]
            ELSE IF id \in DOMAIN active_alerts' THEN zoneAt[id]
            ELSE NoZone]

\* the frame loop with the history of the zones found: frames of at most one
\* person
TickZone ==
    \E trks \in TrackLists :
        Len(trks) <= 1 /\ TickAt(clock, trks) /\ zoneAt' = ZonesSeen(trks)

NextZoneIds == TickZone \/ Elapse

SpecZoneIds == Init /\ [][NextZoneIds]_vars

(***************************************************************************)
(* Zone registration and zone loading: one run of main.py marks zones      *)
(* (--mark-zones), a later run monitors the video with the zones of the    *)
(* file.                                                                   *)
(***************************************************************************)

InitZones ==
    /\ InitLedger
    /\ zones = <<>>
    /\ InitGeometry
    /\ zone_file \in ZoneFiles
    /\ InitMarker
    /\ pc = "idle"
    /\ raised = "none"

\* what a call of the marker was given: the points, the zones and the file
MarkerCall(op, val) ==
    [op |-> op, arg |-> current_zone_points,
     at |-> [zones |-> marker_zones, file |-> zone_file], val |-> val]

\* ZoneMarker.setup_zones up to its loop: self.zones = Config.load_zones()
StartMarking ==
    /\ pc = "idle"
    /\ \E out \in {load_zones(zone_file)} :
          /\ raised' = out.raised
          /\ pc' = IF out.raised = "none" THEN "marking" ELSE "stopped"
          /\ marker_zones' = IF out.raised = "none" THEN out.zones ELSE marker_zones
          /\ current_zone_points' = <<>>
          /\ reply' = MarkerCall("setup_zones", out.raised)
    /\ UNCHANGED <<clock, zones, active_alerts, track_positions, tracks, returned,
                   lastIn, zoneAt, since, created, deleted, geometry, zone_file>>

\* mark_zones_callback, EVENT_LBUTTONDOWN
LeftClick ==
    /\ pc = "marking"
    /\ Len(current_zone_points) < MaxVertices
    /\ current_zone_points' = Outline(Len(current_zone_points) + 1)
    /\ reply' = MarkerCall("left_click", "added")
    /\ UNCHANGED <<clock, zones, active_alerts, track_positions, tracks, returned,
                   lastIn, zoneAt, since, created, deleted, geometry, zone_file,
                   marker_zones, control>>

\* mark_zones_callback, EVENT_RBUTTONDOWN
RightClick ==
    /\ pc = "marking"
    /\ Len(current_zone_points) >= 3 => Len(marker_zones) < MaxZones
    /\ IF Len(current_zone_points) >= 3
       THEN /\ marker_zones' = Append(marker_zones, current_zone_points)
            /\ current_zone_points' = <<>>
            /\ zone_file' = save_zones(marker_zones')
            /\ reply' = MarkerCall("right_click", "saved")
       ELSE /\ reply' = MarkerCall("right_click", "rejected")
            /\ UNCHANGED registry
    /\ UNCHANGED <<clock, zones, active_alerts, track_positions, tracks, returned,
                   lastIn, zoneAt, since, created, deleted, geometry, control>>

\* setup_zones, key 'c': drop the last point
ClearPoint ==
    /\ pc = "marking"
    /\ current_zone_points # <<>>
    /\ current_zone_points' = SubSeq(current_zone_points, 1, Len(current_zone_points) - 1)
    /\ reply' = MarkerCall("clear_point", "popped")
    /\ UNCHANGED <<clock, zones, active_alerts, track_positions, tracks, returned,
                   lastIn, zoneAt, since, created, deleted, geometry, zone_file,
                   marker_zones, control>>

\* setup_zones, key 'd': drop the last zone and save
DeleteLastZone ==
    /\ pc = "marking"
    /\ marker_zones # <<>>
    /\ marker_zones' = SubSeq(marker_zones, 1, Len(marker_zones) - 1)
    /\ zone_file' = save_zones(marker_zones')
    /\ reply' = MarkerCall("delete_last_zone", "saved")
    /\ UNCHANGED <<clock, zones, active_alerts, track_positions, tracks, returned,
                   lastIn, zoneAt, since, created, deleted, geometry,
                   current_zone_points, control>>

\* setup_zones, key 'q': mark_zones_interactively keeps the zones and the
\* run ends
QuitMarking ==
    /\ pc = "marking"
    /\ zones' = marker_zones
    /\ pc' = "idle"
    /\ reply' = MarkerCall("quit", "returned")
    /\ UNCHANGED <<clock, active_alerts, track_positions, tracks, returned,
                   lastIn, zoneAt, since, created, deleted, geometry, registry, raised>>

\* a run in monitoring mode, up to the frame loop: RestrictedZoneMonitor()
\* starts from no zones, process_video returns unless load_zones finds
\* zones and the video opens
LoadZones ==
    /\ pc = "idle"
    /\ \E out \in {load_zones(zone_file)}, opened \in BOOLEAN :
          /\ raised' = out.raised
          /\ zones' = out.zones
          /\ pc' = IF out.raised = "none" /\ out.zones # <<>> /\ opened
                   THEN "frames" ELSE "stopped"
          /\ reply' = [op |-> "load_zones", arg |-> zone_file, at |-> clock,
                       val |-> IF out.raised = "none" THEN out.zones ELSE out.raised]
    /\ UNCHANGED <<clock, active_alerts, track_positions, tracks, returned,
                   lastIn, zoneAt, since, created, deleted, geometry, registry>>

\* the video ends or the operator quits
StopVideo ==
    /\ pc = "frames"
    /\ pc' = "stopped"
    /\ UNCHANGED <<ledger, geometry, registry, raised>>

NextZones ==
    \/ StartMarking \/ LeftClick \/ RightClick \/ ClearPoint \/ DeleteLastZone
    \/ QuitMarking \/ LoadZones \/ Tick \/ StopVideo

SpecZones == InitZones /\ [][NextZones]_vars

\* C11 as stated: every zone of the list handed to update_alerts has at
\* least 3 vertices, whether the list was marked or read from the zone file,
\* and a right click on fewer than 3 points is rejected and leaves the
\* marker's zones and the zone file as they were.
ZonesValidated ==
    /\ reply.op = "update_alerts" => \A k \in DOMAIN zones : Len(zones[k]) >= 3
    /\ (reply.op = "right_click" /\ Len(reply.arg) < 3) =>
            /\ reply.val = "rejected"
            /\ marker_zones = reply.at.zones
            /\ zone_file = reply.at.file

\* C13 as stated: load_zones returns the empty list, and raises nothing,
\* when the file is missing, is not parseable or parses without a 'zones'
\* key; update_alerts is never called with an empty zone list.
ZoneLoadingTolerant ==
    /\ (reply.op = "load_zones" /\ reply.arg.kind # "object") =>
            (raised = "none" /\ reply.val = <<>>)
    /\ (/\ reply.op = "load_zones"
        /\ reply.arg.kind = "object"
        /\ "zones" \notin DOMAIN reply.arg.doc) =>
            (raised = "none" /\ reply.val = <<>>)
    /\ reply.op = "update_alerts" => zones # <<>>

(***************************************************************************)
(* update_alerts on observations outside the tick input contract, one      *)
(* frame per second.                                                       *)
(***************************************************************************)

\* the frame's observations are processed
TickRaw ==
    \E trks \in RawTrackLists :
        /\ IF reply = Idle THEN TickAt(0, trks)
           ELSE clock < MaxTime /\ TickAt(clock + 1, trks)
        /\ UNCHANGED zoneAt

\* the frame's observations make update_alerts raise
RaiseRaw ==
    \E trks \in RawTrackLists :
        IF reply = Idle THEN RaiseAt(0, trks)
        ELSE clock < MaxTime /\ RaiseAt(clock + 1, trks)

NextMalformed == TickRaw \/ RaiseRaw

SpecMalformed == Init /\ [][NextMalformed]_vars

\* an observation outside the tick input contract
Malformed(track) ==
    \/ "track_id" \notin DOMAIN track
    \/ "bbox" \notin DOMAIN track
    \/ track.bbox[1] >= track.bbox[3]
    \/ track.bbox[2] >= track.bbox[4]

\* C12 as stated: update_alerts fails on a frame with an observation that
\* lacks track_id or bbox or whose bbox has x1 >= x2 or y1 >= y2, and no
\* record is created or refreshed from such an observation.
MalformedRejected ==
    reply.op = "update_alerts" =>
        \A i \in DOMAIN tracks :
            Malformed(tracks[i]) =>
                /\ raised # "none"
                /\ "track_id" \in DOMAIN tracks[i] =>
                        ~(/\ tracks[i].track_id \in DOMAIN active_alerts
                          /\ active_alerts[tracks[i].track_id].last_seen_in_zone
                                = reply.at)

(***************************************************************************)
(* Properties of the ledger.                                               *)
(***************************************************************************)

\* seconds since the track's latest tick inside a zone
SinceInside(id) == clock - lastIn[id]

InGrace(id) ==
    /\ id \in returned
    /\ id \in DOMAIN active_alerts
    /\ ~active_alerts[id].is_active

DisappearanceParity ==
    \A a, b \in TrackIds :
        (/\ since[a] = "vanished"
         /\ since[b] = "outside"
         /\ lastIn[a] = lastIn[b])
            => (a \in returned <=> b \in returned)

\* a vanished track and a departed one, inside at the same tick, both alerted
\* one tick and both dropped by the next
ParityWitness ==
    \E a, b \in TrackIds :
        /\ since[a] = "vanished"
        /\ since[b] = "outside"
        /\ lastIn[a] = lastIn[b]
        /\ deleted = {a, b}
        /\ returned = {}

\* C3: after update_alerts at time now, a track has a record iff it was
\* observed inside a zone on this tick or on an earlier tick at a time t
\* with now - t < ALARM_DURATION (lastIn is the latest such t); every track
\* inside a zone on this tick is in the returned set.
RecordExists ==
    reply.op = "update_alerts" =>
        /\ \A id \in TrackIds :
              id \in DOMAIN active_alerts
                <=> (lastIn[id] # NoTime /\ reply.at - lastIn[id] < ALARM_DURATION)
        /\ \A id \in TrackIds :
              ObservedInside(tracks, zones, id) => id \in returned
        /\ returned = DOMAIN active_alerts

\* one track still in its grace period, the other one expired
RecordWitness ==
    \E a, b \in TrackIds :
        /\ clock = reply.at
        /\ a \in DOMAIN active_alerts
        /\ ~active_alerts[a].is_active
        /\ clock - lastIn[a] = ALARM_DURATION - 1
        /\ lastIn[b] # NoTime
        /\ b \notin DOMAIN active_alerts

\* C4: while a track has a record it is the one record of that track id,
\* and its entry_time is the time of the tick that created it.
SingleCreation ==
    \A id \in DOMAIN active_alerts :
        /\ active_alerts[id].track_id = id
        /\ created[id] # NoTime
        /\ active_alerts[id].entry_time = created[id]

\* a record kept alive by refreshes for longer than ALARM_DURATION
CreationWitness ==
    \E id \in DOMAIN active_alerts :
        /\ active_alerts[id].is_active
        /\ active_alerts[id].entry_time + ALARM_DURATION < active_alerts[id].last_seen_in_zone

\* the zone test stated over the set of zones that contain the center
LowestZone(center_point, zs) ==
    LET hits == {k \in DOMAIN zs : check_point_in_polygon(center_point, zs[k])}
    IN  IF hits = {} THEN [penetrated |-> FALSE, zone_id |-> -1]
        ELSE [penetrated |-> TRUE,
              zone_id |-> (CHOOSE k \in hits : \A j \in hits : k <= j) - 1]

ZoneTest(track_id, bbox, zs) ==
    LET r == check_zone_penetration(track_id, bbox, zs, EmptyMap)
    IN  [penetrated |-> r.penetrated, zone_id |-> r.zone_id]

\* C7: check_zone_penetration returns (True, the smallest index of a zone
\* that contains the center) or (False, -1), and a record created by a tick
\* gets that index as its zone_id.
ZoneTieBreak ==
    /\ [](\A i \in DOMAIN tracks :
            ZoneTest(tracks[i].track_id, tracks[i].bbox, zones)
                = LowestZone(get_bbox_center(tracks[i].bbox), zones))
    /\ [][\A id \in TrackIds :
            (id \notin DOMAIN active_alerts /\ id \in DOMAIN active_alerts')
                => active_alerts'[id].zone_id
                    = LowestZone(get_bbox_center(CurrentTrack(tracks', id).bbox),
                                 zones').zone_id]_vars

\* a record created this tick for a track whose center is in both zones
TieBreakWitness ==
    \E id \in DOMAIN active_alerts :
        /\ created[id] = clock
        /\ id \in ActiveTrackIds(tracks)
        /\ Len(zones) = 2
        /\ \A k \in DOMAIN zones :
              check_point_in_polygon(get_bbox_center(CurrentTrack(tracks, id).bbox),
                                     zones[k])
        /\ active_alerts[id].zone_id = 0

\* a step of update_alerts that returned
TickStep == reply'.op = "update_alerts" /\ reply'.at = clock' /\ raised' = "none"

\* C14: after every update_alerts call at time now, every remaining record
\* has now - last_seen_in_zone < ALARM_DURATION, and a tick deletes a record
\* only if now - last_seen_in_zone >= ALARM_DURATION at that tick, for
\* tracks in the observations and for tracks absent from them.
ExpiryBookkeeping ==
    /\ [](reply.op = "update_alerts" =>
            \A id \in DOMAIN active_alerts :
                reply.at - active_alerts[id].last_seen_in_zone < ALARM_DURATION)
    /\ [][\A id \in DOMAIN active_alerts :
            id \notin DOMAIN active_alerts' =>
                /\ TickStep
                /\ clock' - active_alerts[id].last_seen_in_zone >= ALARM_DURATION]_vars

\* one tick deleted the record of a track it observed and the record of a
\* track it did not observe
ExpiryWitness ==
    \E a, b \in deleted :
        /\ a \in ActiveTrackIds(tracks)
        /\ b \notin ActiveTrackIds(tracks)
        /\ reply.at - lastIn[a] >= ALARM_DURATION
        /\ reply.at - lastIn[b] >= ALARM_DURATION

\* C15: a tick that observes a track with a record inside some zone sets
\* last_seen_in_zone = now and is_active = true and leaves zone_id and
\* entry_time as they were; while a record exists its zone_id never changes.
ZoneKeptOnRefresh ==
    /\ [][\A id \in DOMAIN active_alerts :
            (TickStep /\ ObservedInside(tracks', zones', id)) =>
                /\ id \in DOMAIN active_alerts'
                /\ active_alerts'[id] =
                        [active_alerts[id] EXCEPT !.last_seen_in_zone = clock',
                                                  !.is_active = TRUE]]_vars
    /\ [][\A id \in DOMAIN active_alerts \cap DOMAIN active_alerts' :
            /\ active_alerts'[id].zone_id = active_alerts[id].zone_id
            /\ active_alerts'[id].entry_time = active_alerts[id].entry_time]_vars

\* a record refreshed by a tick that found its track in another zone than
\* the one recorded
RefreshWitness ==
    \E id \in DOMAIN active_alerts :
        /\ reply.at = clock
        /\ ObservedInside(tracks, zones, id)
        /\ created[id] < clock
        /\ active_alerts[id].last_seen_in_zone = clock
        /\ active_alerts[id].zone_id #
                LowestZone(get_bbox_center(CurrentTrack(tracks, id).bbox), zones).zone_id

\* C16 as stated: the zone_id of every record is the index of the lowest
\* zone that contained the track's center on the latest tick at which the
\* track was inside a zone.
ZoneIdCurrent ==
    \A id \in DOMAIN active_alerts :
        active_alerts[id].zone_id = zoneAt[id].last

\* C16 amended: the zone_id of every record is the index of the lowest zone
\* that contained the track's center on the tick that created the record.
ZoneIdOfEntry ==
    \A id \in DOMAIN active_alerts :
        active_alerts[id].zone_id = zoneAt[id].first

\* a record whose track was last found in another zone than the one it
\* entered
ZoneIdWitness ==
    \E id \in DOMAIN active_alerts :
        /\ zoneAt[id].first # zoneAt[id].last
        /\ active_alerts[id].zone_id = zoneAt[id].first
        /\ active_alerts[id].last_seen_in_zone > active_alerts[id].entry_time

\* C17 as stated: after every update_alerts call a record is active if and
\* only if its track was observed on this tick inside some zone.
ActiveIffInside ==
    reply.op = "update_alerts" =>
        \A id \in DOMAIN active_alerts :
            active_alerts[id].is_active <=> ObservedInside(tracks, zones, id)

\* C17 amended: after every update_alerts call a record is active if and
\* only if no tick since the track's latest tick inside a zone observed the
\* track outside every zone; so for a track in this tick's observations,
\* if and only if the tick found it inside some zone.
ActiveUntilSeenOutside ==
    reply.op = "update_alerts" =>
        \A id \in DOMAIN active_alerts :
            /\ active_alerts[id].is_active <=> since[id] \in {"none", "vanished"}
            /\ id \in ActiveTrackIds(tracks) =>
                    (active_alerts[id].is_active <=> ObservedInside(tracks, zones, id))

\* after the latest tick: a record still active for a track that vanished,
\* and an inactive one for a track observed outside every zone
ActiveWitness ==
    \E a, b \in DOMAIN active_alerts :
        /\ reply.at = clock
        /\ a \notin ActiveTrackIds(tracks)
        /\ active_alerts[a].is_active
        /\ b \in ActiveTrackIds(tracks)
        /\ ~ObservedInside(tracks, zones, b)
        /\ ~active_alerts[b].is_active

\* C18: a tick whose observations lack a track that has a record deletes
\* the record when now - last_seen_in_zone >= ALARM_DURATION and otherwise
\* leaves every field of it as it was.
VanishedUntouched ==
    [][\A id \in DOMAIN active_alerts :
        (TickStep /\ id \notin ActiveTrackIds(tracks')) =>
            IF clock' - active_alerts[id].last_seen_in_zone >= ALARM_DURATION
            THEN id \notin DOMAIN active_alerts'
            ELSE /\ id \in DOMAIN active_alerts'
                 /\ active_alerts'[id] = active_alerts[id]]_vars

\* a track that vanished while inside a zone: seconds later a tick has left
\* its record active
VanishedWitness ==
    \E id \in DOMAIN active_alerts :
        /\ reply.at = clock
        /\ id \notin ActiveTrackIds(tracks)
        /\ since[id] = "vanished"
        /\ clock > active_alerts[id].last_seen_in_zone
        /\ active_alerts[id].is_active

AlertsClear ==
    /\ \A id \in TrackIds :
            (id \in DOMAIN active_alerts /\ lastIn[id] + ALARM_DURATION <= MaxTime)
                ~> \/ id \notin DOMAIN active_alerts /\ id \notin returned
                   \/ lastIn[id] + ALARM_DURATION > MaxTime
    /\ [][\A id \in TrackIds :
            (id \notin returned /\ id \in returned') =>
                (TickStep /\ ObservedInside(tracks', zones', id))]_vars

\* a track that went missing after its tick inside a zone, just dropped from
\* the returned set while the other track is still alerted
ClearWitness ==
    \E id \in TrackIds :
        /\ since[id] = "vanished"
        /\ reply.at - lastIn[id] = ALARM_DURATION
        /\ id \in deleted
        /\ id \notin returned
        /\ returned # {}

\* C8: entry_time <= last_seen_in_zone in every record.
EntryBeforeLastSeen ==
    \A id \in DOMAIN active_alerts :
        active_alerts[id].entry_time <= active_alerts[id].last_seen_in_zone

\* a record refreshed after the tick that created it
EntryWitness ==
    \E id \in DOMAIN active_alerts :
        /\ active_alerts[id].entry_time > 0
        /\ active_alerts[id].entry_time < active_alerts[id].last_seen_in_zone

\* C10: after a tick every key of track_positions is a track id of that
\* tick's observations, and no track whose record the tick deleted is a key.
PositionsPurged ==
    /\ DOMAIN track_positions \subseteq ActiveTrackIds(tracks)
    /\ deleted \cap DOMAIN track_positions = {}

\* a tick that deleted the record of a track it observed, and kept the
\* position of another one
PurgeWitness ==
    \E a, b \in TrackIds :
        /\ a \in deleted
        /\ a \in ActiveTrackIds(tracks)
        /\ b \in DOMAIN track_positions

(***************************************************************************)
(* Properties of the queries.                                              *)
(***************************************************************************)

\* C5: get_alert_status returns (False, 0) without a record, (True, 0) for
\* an active record, and otherwise (remaining > 0, remaining) with
\* remaining = max(0, ALARM_DURATION - (now - last_seen_in_zone)).
StatusContract ==
    reply.op = "get_alert_status" =>
        LET id == reply.arg
            left == ALARM_DURATION - (reply.at - active_alerts[id].last_seen_in_zone)
            remaining == IF left > 0 THEN left ELSE 0
        IN  /\ id \notin DOMAIN active_alerts => reply.val = <<FALSE, 0>>
            /\ (id \in DOMAIN active_alerts /\ active_alerts[id].is_active)
                    => reply.val = <<TRUE, 0>>
            /\ (id \in DOMAIN active_alerts /\ ~active_alerts[id].is_active)
                    => reply.val = <<remaining > 0, remaining>>

\* a query that found a record whose grace period had run out
StatusWitness ==
    /\ reply.op = "get_alert_status"
    /\ reply.arg \in DOMAIN active_alerts
    /\ reply.val = <<FALSE, 0>>

\* C22: a get_alert_status query made at the timestamp of the most recent
\* update_alerts call reports alarmed exactly for the ids in the set that
\* call returned; a query made at any time up to the next tick that reports
\* alarmed names an id of get_alerted_tracks().
StatusAgreesWithSet ==
    /\ (reply.op = "update_alerts" /\ reply.at = clock) =>
            \A id \in TrackIds :
                get_alert_status(id, active_alerts, clock)[1] <=> id \in returned
    /\ (reply.op = "get_alert_status" /\ reply.val[1]) =>
            reply.arg \in get_alerted_tracks(active_alerts)

\* a tick that returned a departed id whose grace period has one second
\* left, and kept no record of another id
AgreementWitness ==
    /\ reply.op = "update_alerts"
    /\ reply.at = clock
    /\ \E id \in returned :
          /\ ~active_alerts[id].is_active
          /\ active_alerts[id].entry_time < active_alerts[id].last_seen_in_zone
          /\ clock - active_alerts[id].last_seen_in_zone = ALARM_DURATION - 1
    /\ returned # TrackIds

Queries == {"get_alerted_tracks", "get_alert_status", "get_alert_statistics"}

\* C6: the three queries change neither active_alerts nor track_positions;
\* get_alerted_tracks returns the set the latest update_alerts returned and
\* total_alerts is the size of that set.
PureReads ==
    /\ [][reply'.op \in Queries =>
            (active_alerts' = active_alerts /\ track_positions' = track_positions)]_vars
    /\ [](reply.op = "get_alerted_tracks" => reply.val = returned)
    /\ [](reply.op = "get_alert_statistics" =>
            reply.val = [total_alerts |-> Cardinality(returned)])

\* get_alerted_tracks, seconds after the tick, with one track inside a zone
\* and one in its grace period
ReadsWitness ==
    /\ reply.op = "get_alerted_tracks"
    /\ Cardinality(reply.val) = 2
    /\ \E id \in reply.val : ~active_alerts[id].is_active
    /\ \E id \in reply.val : clock > active_alerts[id].last_seen_in_zone

(***************************************************************************)
(* check_point_in_polygon on its own: a polygon, then one query point.     *)
(***************************************************************************)

\* integer vertices on a small grid; query points on the half-pixel grid
\* that reaches half a pixel beyond it on every side
Vertices == (0..GridWidth) \X (0..GridHeight)
Points == (-1..(2 * GridWidth + 1)) \X (-1..(2 * GridHeight + 1))

\* twice the signed area of the triangle a, b, c: positive when c is to the
\* left of the directed line from a to b
Cross(a, b, c) ==
    (b[1] - a[1]) * (c[2] - a[2]) - (b[2] - a[2]) * (c[1] - a[1])

Succ(poly, i) == (i % Len(poly)) + 1
Twice(v) == <<2 * v[1], 2 * v[2]>>

\* a convex polygon of orientation s (1 counter-clockwise, -1 clockwise):
\* distinct vertices, every vertex on the inner side of (or on) every edge's
\* line, and not all on one line
ConvexAs(poly, s) ==
    /\ \A i, j \in DOMAIN poly : i # j => poly[i] # poly[j]
    /\ \A i, j \in DOMAIN poly : s * Cross(poly[i], poly[Succ(poly, i)], poly[j]) >= 0
    /\ \E i, j \in DOMAIN poly : Cross(poly[i], poly[Succ(poly, i)], poly[j]) # 0

Convex(poly) == ConvexAs(poly, 1) \/ ConvexAs(poly, -1)

\* pt (half-pixel units) is strictly inside the convex polygon
StrictlyInside(pt, poly) ==
    \E s \in {1, -1} :
        /\ ConvexAs(poly, s)
        /\ \A i \in DOMAIN poly :
              s * Cross(Twice(poly[i]), Twice(poly[Succ(poly, i)]), pt) > 0

\* the x or the y of pt is strictly outside the polygon's bounding extent
OutsideExtent(pt, poly) ==
    \/ \A i \in DOMAIN poly : pt[1] < 2 * poly[i][1]
    \/ \A i \in DOMAIN poly : pt[1] > 2 * poly[i][1]
    \/ \A i \in DOMAIN poly : pt[2] < 2 * poly[i][2]
    \/ \A i \in DOMAIN poly : pt[2] > 2 * poly[i][2]

\* a piece of a convex polygon of orientation s: distinct vertices that
\* never turn against s
ConvexChain(poly) ==
    /\ \A i, j \in DOMAIN poly : i # j => poly[i] # poly[j]
    /\ \E s \in {1, -1} :
          \A i \in 1..(Len(poly) - 2) :
              s * Cross(poly[i], poly[i + 1], poly[i + 2]) >= 0

InitConvex ==
    /\ InitLedger
    /\ zones = <<>>
    /\ InitGeometry
    /\ zone_file = NoFile
    /\ InitMarker
    /\ pc = "idle"
    /\ raised = "none"

\* the polygon is given vertex by vertex
AddVertex ==
    \E v \in Vertices :
        /\ ~inside.called
        /\ Len(polygon) < MaxVertices
        /\ ConvexChain(Append(polygon, v))
        /\ polygon' = Append(polygon, v)
        /\ UNCHANGED <<ledger, point, inside, registry, control>>

\* check_point_in_polygon(point, polygon) on a convex polygon
CheckPoint ==
    /\ ~inside.called
    /\ Len(polygon) >= 3
    /\ Convex(polygon)
    /\ \E pt \in Points :
        \E run \in {PolygonRun(pt, polygon)} :
          /\ point' = pt
          /\ inside' = [called |-> TRUE, raised |-> run.unbound,
                        value |-> run.inside, stale |-> run.stale,
                        compared |-> run.compared, horizontal |-> run.horizontal]
    /\ UNCHANGED <<ledger, polygon, registry, control>>

NextConvex == AddVertex \/ CheckPoint

SpecConvex == InitConvex /\ [][NextConvex]_vars

(***************************************************************************)
(* check_point_in_polygon on any polygon of at least 3 vertices, convex or *)
(* not, with repeated vertices and horizontal edges.                       *)
(***************************************************************************)

\* the vertices of the polygons: a square with a notch, so that edges are
\* horizontal, vertical and slanted both ways
Corners == {<<0, 0>>, <<2, 0>>, <<1, 1>>, <<2, 2>>, <<0, 2>>}

\* query points on the half-pixel grid, half a pixel beyond the corners
CornerPoints == (-1..5) \X (-1..5)

AddCorner ==
    \E v \in Corners :
        /\ ~inside.called
        /\ Len(polygon) < MaxVertices
        /\ polygon' = Append(polygon, v)
        /\ UNCHANGED <<ledger, point, inside, registry, control>>

\* check_point_in_polygon(point, polygon), with what the run did to xinters
CheckAnyPoint ==
    /\ ~inside.called
    /\ Len(polygon) >= 3
    /\ \E pt \in CornerPoints :
        \E run \in {PolygonRun(pt, polygon)} :
          /\ point' = pt
          /\ inside' = [called |-> TRUE, raised |-> run.unbound,
                        value |-> run.inside, stale |-> run.stale,
                        compared |-> run.compared, horizontal |-> run.horizontal]
    /\ UNCHANGED <<ledger, polygon, registry, control>>

NextPolygon == AddCorner \/ CheckAnyPoint

SpecPolygon == InitConvex /\ [][NextPolygon]_vars

\* C21: for every polygon of at least 3 vertices and every query point, no
\* run of check_point_in_polygon reads xinters before it is assigned,
\* compares against an xinters computed for another edge, or evaluates the
\* comparison on a horizontal edge.
NoStaleCrossing ==
    (inside.called /\ Len(polygon) >= 3) =>
        /\ ~inside.raised
        /\ ~inside.stale
        /\ ~inside.horizontal

\* a polygon whose first edge is horizontal, and a query point for which a
\* later edge's comparison against xinters was evaluated
CrossingWitness ==
    /\ inside.called
    /\ polygon[1] # polygon[2]
    /\ polygon[1][2] = polygon[2][2]
    /\ inside.compared
    /\ inside.value = TRUE

\* C9: for a convex polygon, check_point_in_polygon returns True for every
\* point strictly inside it and False for every point whose x or y is
\* strictly outside its bounding extent.
ContainmentCorrect ==
    inside.called =>
        /\ ~inside.raised
        /\ StrictlyInside(point, polygon) => inside.value = TRUE
        /\ OutsideExtent(point, polygon) => inside.value = FALSE

\* a quadrilateral was asked about a point strictly inside it
ContainmentWitness ==
    /\ inside.called
    /\ Len(polygon) = 4
    /\ StrictlyInside(point, polygon)
    /\ inside.value = TRUE

====
